---- MODULE Spec2Model ----
(***************************************************************************)
(* A state-machine model of qv_rag: RAGEngine (engine.py) composed of      *)
(* TextSplitter (text_splitter.py) and ChromaStorage (storage.py).         *)
(*                                                                         *)
(* Python values are represented as follows.                               *)
(*   str that is sliced or scanned (texts, paths, file types, metadata     *)
(*       values): a sequence of one-character strings                      *)
(*   str that is only compared (split_type, dict keys, exception names):   *)
(*       a TLA+ string                                                     *)
(*   list: a sequence;   dict: a set of <<key, value>> pairs, one per key  *)
(*   Optional[T]: None or Some(x)                                          *)
(* The splitting library and the vector store are collaborators outside   *)
(* the repository: the splitter is a deterministic function of the text    *)
(* and the splitter's configuration that may raise, the store holds        *)
(* records under ids and ranks matches as it likes, and may raise.         *)
(***************************************************************************)
EXTENDS Integers, Sequences, FiniteSets, TLC

\* ---------------------------------------------------------------- bounds
MaxTexts == 2        \* longest texts list handed to add_texts
MaxRecords == 2      \* most records the collection is let grow to
MaxTopK == 2         \* largest top_k of a query

\* ------------------------------------------------------- Python values
None == [some |-> FALSE]
Some(x) == [some |-> TRUE, val |-> x]

RECURSIVE Flatten(_)
Flatten(ss) == IF ss = <<>> THEN <<>> ELSE Head(ss) \o Flatten(Tail(ss))

Range(s) == {s[i] : i \in 1..Len(s)}

\* All sequences over S of length lo..hi.
SeqsOf(S, lo, hi) == UNION {[1..n -> S] : n \in lo..hi}

\* dict[key] = value
DictSet(d, key, value) == {p \in d : p[1] # key} \cup {<<key, value>>}

\* Truthiness of an Optional[list]: None and [] are falsy.
Truthy(opt) == opt.some /\ opt.val # <<>>

\* ------------------------------------------------------- text_splitter.py
\* A str chunk, and a Document object as the header/JSON/HTML splitters
\* return them.
StrChunk(s) == [kind |-> "str", text |-> s]
Document(s) == [kind |-> "Document", text |-> s]

\* TextSplitter's max_json_chunk_size, on the scale of the model's texts of
\* a few characters, as the chunk sizes of ConfigArgs are.
max_json_chunk_size == 1

\* The pieces of t of at most size characters, each starting size - overlap
\* characters after the one before (the recursive character splitter on a
\* text without separators); the empty text has no pieces.
RECURSIVE Pieces(_, _, _, _)
Pieces(t, from, size, overlap) ==
    IF from > Len(t) THEN <<>>
    ELSE IF from + size - 1 >= Len(t) THEN <<SubSeq(t, from, Len(t))>>
    ELSE <<SubSeq(t, from, from + size - 1)>>
            \o Pieces(t, from + size - overlap, size, overlap)

\* The sections of t between "#" header marks, empty sections dropped.
RECURSIVE Sections(_, _)
Sections(t, acc) ==
    IF t = <<>> THEN (IF acc = <<>> THEN <<>> ELSE <<acc>>)
    ELSE IF Head(t) = "#"
         THEN (IF acc = <<>> THEN <<>> ELSE <<acc>>) \o Sections(Tail(t), <<>>)
         ELSE Sections(Tail(t), Append(acc, Head(t)))

split_text(cfg, text) ==
    LET ps == Pieces(text, 1, cfg.chunk_size, cfg.chunk_overlap)
    IN  [i \in 1..Len(ps) |-> StrChunk(ps[i])]

split_markdown(cfg, text) ==
    LET ss == Sections(text, <<>>)
    IN  [i \in 1..Len(ss) |-> Document(ss[i])]

split_json(cfg, text) ==
    LET ps == Pieces(text, 1, max_json_chunk_size, 0)
    IN  [i \in 1..Len(ps) |-> Document(ps[i])]

split_html_semantic(cfg, text) ==
    LET ps == Pieces(text, 1, cfg.chunk_size, 0)
    IN  [i \in 1..Len(ps) |-> Document(ps[i])]

split_texts(cfg, texts) ==
    Flatten([i \in 1..Len(texts) |-> split_text(cfg, texts[i])])

\* ------------------------------------------------------------- storage.py
\* f"doc{i}"
DocId(i) == <<"doc", i>>

IdsOf(coll) == {r.id : r \in coll}

\* collection.add of the vector store: it refuses lists of different
\* lengths and an id given twice, may refuse for reasons of its own
\* (storeRaises), and otherwise stores every record whose id is new.
CollectionAdd(coll, documents, metadatas, ids, storeRaises) ==
    IF \/ storeRaises
       \/ Len(metadatas) # Len(documents)
       \/ Len(ids) # Len(documents)
       \/ \E i, j \in 1..Len(ids) : i # j /\ ids[i] = ids[j]
    THEN [raised |-> "StoreError", coll |-> coll]
    ELSE [raised |-> "none",
          coll |-> coll \cup
                   {[id |-> ids[i], document |-> documents[i],
                     metadata |-> metadatas[i]] :
                        i \in {k \in 1..Len(ids) : ids[k] \notin IdsOf(coll)}}]

\* The ids add_texts generates when none are given.
GeneratedIds(texts) == [i \in 1..Len(texts) |-> DocId(i - 1)]

\* The metadatas add_texts passes on: one empty dict per text when none are
\* given, the given list padded with empty dicts when the lengths differ.
PaddedMetadatas(texts, metadatas) ==
    IF ~metadatas.some THEN [i \in 1..Len(texts) |-> {}]
    ELSE IF Len(metadatas.val) # Len(texts)
         THEN metadatas.val
                \o (IF Len(texts) > Len(metadatas.val)
                    THEN [i \in 1..(Len(texts) - Len(metadatas.val)) |-> {}]
                    ELSE <<>>)
         ELSE metadatas.val

\* ChromaStorage.add_texts: what it raised, the collection after it, and
\* the arguments of its collection.add call (None when it made none).
StorageAddTexts(coll, texts, metadatas, ids, storeRaises) ==
    IF texts = <<>>
    THEN [raised |-> "none", coll |-> coll, added |-> None]
    ELSE LET ids2 == IF ~ids.some THEN GeneratedIds(texts) ELSE ids.val
             metas2 == PaddedMetadatas(texts, metadatas)
             r == CollectionAdd(coll, texts, metas2, ids2, storeRaises)
         IN  [raised |-> r.raised, coll |-> r.coll,
              added |-> Some([documents |-> texts, metadatas |-> metas2,
                              ids |-> ids2])]

\* -------------------------------------------------------------- engine.py
SplitTypes == {"text", "markdown", "html", "json"}

\* The chunks of one text under a split type (engine.py's if/elif chain).
SplitOne(cfg, text, split_type) ==
    CASE split_type = "text" -> split_text(cfg, text)
      [] split_type = "markdown" -> split_markdown(cfg, text)
      [] split_type = "html" -> split_html_semantic(cfg, text)
      [] split_type = "json" -> split_json(cfg, text)

\* The chunks of all texts, in order.
SplitAll(cfg, texts, split_type) ==
    IF split_type = "text" THEN split_texts(cfg, texts)
    ELSE Flatten([i \in 1..Len(texts) |-> SplitOne(cfg, texts[i], split_type)])

\* metadatas[i] is read once per chunk of text i: a text with a chunk and
\* no metadata entry raises IndexError.
ReplicateOverruns(cfg, texts, metadatas, split_type) ==
    \E i \in 1..Len(texts) :
        i > Len(metadatas) /\ SplitOne(cfg, texts[i], split_type) # <<>>

\* ReplicateMetadata with the first document's metadata on every chunk.
ReplicateMetadata_FirstOnly(cfg, texts, metadatas, split_type) ==
    Flatten([i \in 1..Len(texts) |->
                [j \in 1..Len(SplitOne(cfg, texts[i], split_type)) |->
                    metadatas[1]]])

\* chunk_metadatas: metadatas[i] once per chunk of text i.
ReplicateMetadata(cfg, texts, metadatas, split_type) ==
    Flatten([i \in 1..Len(texts) |->
                [j \in 1..Len(SplitOne(cfg, texts[i], split_type)) |->
                    metadatas[i]]])

NoEffect(coll, exc) ==
    [raised |-> exc, coll |-> coll, handed |-> None, added |-> None]

\* add_texts from the split on, for texts it has found non-empty and a split
\* type it has found supported: split, replicate the metadata, hand the
\* chunks to storage.
SplitAndStore(coll, cfg, texts, metadatas, split_type, splitRaises, storeRaises) ==
    IF splitRaises THEN NoEffect(coll, "SplitterError")
    ELSE LET chunks == SplitAll(cfg, texts, split_type)
         IN  IF Truthy(metadatas)
                  /\ ReplicateOverruns(cfg, texts, metadatas.val, split_type)
             THEN NoEffect(coll, "IndexError")
             ELSE LET chunk_metadatas ==
                          IF Truthy(metadatas)
                          THEN Some(ReplicateMetadata(cfg, texts, metadatas.val,
                                                      split_type))
                          ELSE None
                      s == StorageAddTexts(coll, chunks, chunk_metadatas, None,
                                           storeRaises)
                  IN  [raised |-> s.raised, coll |-> s.coll,
                       handed |-> Some([texts |-> chunks,
                                        metadatas |-> chunk_metadatas]),
                       added |-> s.added]

\* EngineAddTexts with the split type looked at before the texts.
EngineAddTexts_ValidatesFirst(coll, cfg, texts, metadatas, split_type, splitRaises, storeRaises) ==
    IF split_type \notin SplitTypes THEN NoEffect(coll, "ValueError")
    ELSE IF texts = <<>> THEN NoEffect(coll, "none")
    ELSE SplitAndStore(coll, cfg, texts, metadatas, split_type, splitRaises,
                       storeRaises)

\* EngineAddTexts with an unknown split type split as plain text.
EngineAddTexts_DefaultsToText(coll, cfg, texts, metadatas, split_type, splitRaises, storeRaises) ==
    IF texts = <<>> THEN NoEffect(coll, "none")
    ELSE SplitAndStore(coll, cfg, texts, metadatas,
                       IF split_type \in SplitTypes THEN split_type ELSE "text",
                       splitRaises, storeRaises)

\* RAGEngine.add_texts: what it raised, the collection after it, what it
\* handed to storage.add_texts and what storage passed to collection.add.
EngineAddTexts(coll, cfg, texts, metadatas, split_type, splitRaises, storeRaises) ==
    IF texts = <<>> THEN NoEffect(coll, "none")
    ELSE IF split_type \notin SplitTypes THEN NoEffect(coll, "ValueError")
    ELSE SplitAndStore(coll, cfg, texts, metadatas, split_type, splitRaises,
                       storeRaises)

\* ------------------------------------------------- engine.py, add_file
LowerChar(c) ==
    CASE c = "T" -> "t" [] c = "X" -> "x" [] c = "M" -> "m" [] c = "D" -> "d"
      [] OTHER -> c

\* str.lower()
Lower(s) == [i \in 1..Len(s) |-> LowerChar(s[i])]

\* s[1:]
DropFirst(s) == IF s = <<>> THEN <<>> ELSE Tail(s)

\* The position of the last c in s, 0 when there is none (str.rfind + 1).
LastIndexOf(s, c) ==
    LET at == {i \in 1..Len(s) : s[i] = c}
    IN  IF at = {} THEN 0 ELSE CHOOSE i \in at : \A j \in at : j <= i

\* Path(file_path): a leading "./" is dropped.
RECURSIVE PathOf(_)
PathOf(s) ==
    IF Len(s) > 2 /\ s[1] = "." /\ s[2] = "/"
    THEN PathOf(SubSeq(s, 3, Len(s)))
    ELSE s

\* Path.name: what follows the last "/".
PathName(p) == SubSeq(p, LastIndexOf(p, "/") + 1, Len(p))

\* Path.suffix: the name from its last dot on, unless that dot is the first
\* or the last character of the name.
PathSuffix(p) ==
    LET name == PathName(p)
        i == LastIndexOf(name, ".")
    IN  IF 1 < i /\ i < Len(name) THEN SubSeq(name, i, Len(name)) ELSE <<>>

\* DetectedFileType without lower().
DetectedFileType_NoLower(p) == DropFirst(PathSuffix(p))

\* file_path.suffix.lower()[1:]
DetectedFileType(p) == DropFirst(Lower(PathSuffix(p)))

\* split_type_map.get(file_type, "text")
SplitTypeOf(file_type) ==
    CASE file_type = <<"t", "x", "t">> -> "text"
      [] file_type = <<"m", "d">> -> "markdown"
      [] file_type = <<"h", "t", "m", "l">> -> "html"
      [] file_type = <<"h", "t", "m">> -> "html"
      [] file_type = <<"j", "s", "o", "n">> -> "json"
      [] OTHER -> "text"

\* FileMetadata without the file_type key.
FileMetadata_NoFileType(p, metadata, file_type) ==
    DictSet(IF metadata.some THEN metadata.val ELSE {}, "source", p)

\* The metadata add_file attaches: the caller's (or a new dict) with source
\* and file_type set.
FileMetadata(p, metadata, file_type) ==
    DictSet(DictSet(IF metadata.some THEN metadata.val ELSE {},
                    "source", p),
            "file_type", file_type)

\* RAGEngine.add_file on a file system fs (path -> Optional[content]): the
\* outcome of its add_texts call, with the arguments of that call (None when
\* open() raised before it).
EngineAddFile(coll, cfg, fs, file_path, metadata, file_type, splitRaises, storeRaises) ==
    LET p == PathOf(file_path)
        ft == IF file_type.some THEN file_type.val ELSE DetectedFileType(p)
        split_type == SplitTypeOf(ft)
        md == FileMetadata(p, metadata, ft)
    IN  IF ~fs[p].some
        THEN [raised |-> "FileNotFoundError", coll |-> coll, handed |-> None,
              added |-> None, inner |-> None]
        ELSE LET r == EngineAddTexts(coll, cfg, <<fs[p].val>>, Some(<<md>>),
                                     split_type, splitRaises, storeRaises)
             IN  [raised |-> r.raised, coll |-> r.coll, handed |-> r.handed,
                  added |-> r.added,
                  inner |-> Some([texts |-> <<fs[p].val>>,
                                  metadatas |-> Some(<<md>>),
                                  split_type |-> split_type])]


\* ------------------------------------------------- storage.py, query side
\* The store's metadata filter (where) is a <<key, value>> pair a record's
\* metadata must hold, its content filter (where_document) a character the
\* record's document must contain.
Satisfies(r, where, where_document) ==
    /\ where.some => where.val \in r.metadata
    /\ where_document.some => where_document.val \in Range(r.document.text)

Matching(coll, where, where_document) ==
    {r \in coll : Satisfies(r, where, where_document)}

Min(a, b) == IF a <= b THEN a ELSE b

Abs(n) == IF n < 0 THEN -n ELSE n

\* The store's distance of a document from the query text.
Distance(query_text, document) ==
    IF document.text = query_text THEN 0
    ELSE 1 + Abs(Len(document.text) - Len(query_text))

\* The rankings the store may answer with: the top_k nearest matching
\* records, or all of them when there are fewer, in an order of its choice.
Rankings(coll, top_k, where, where_document) ==
    LET ms == Matching(coll, where, where_document)
        n == Min(top_k, Cardinality(ms))
    IN  {s \in [1..n -> ms] : \A i, j \in 1..n : i # j => s[i] # s[j]}

\* What the store may send back for a ranking: every list (full), one list
\* left out (no_documents, no_metadatas, no_distances), or a metadata list
\* that is shorter than the document list (ragged).
Shapes == {"full", "no_documents", "no_metadatas", "no_distances", "ragged"}

\* collection.query: it raises when it is down or top_k is not positive,
\* and otherwise answers with one list of lists per field.
CollectionQuery(query_text, top_k, ranking, shape, storeRaises) ==
    IF storeRaises \/ top_k <= 0
    THEN [raised |-> "StoreError", results |-> None]
    ELSE LET n == Len(ranking)
             docs == [i \in 1..n |-> ranking[i].document]
             metas == [i \in 1..n |-> ranking[i].metadata]
             dists == [i \in 1..n |-> Distance(query_text, ranking[i].document)]
         IN  [raised |-> "none",
              results |-> Some(
                [documents |-> IF shape = "no_documents" THEN None
                               ELSE Some(<<docs>>),
                 metadatas |-> IF shape = "no_metadatas" THEN None
                               ELSE IF shape = "ragged"
                                    THEN Some(<<SubSeq(metas, 1, n - 1)>>)
                                    ELSE Some(<<metas>>),
                 distances |-> IF shape = "no_distances" THEN None
                               ELSE Some(<<dists>>)])]

\* FormatResults with the first match's metadata in every mapping.
FormatResults_FirstMetadata(results) ==
    IF Truthy(results.documents)
    THEN LET docs == results.documents.val[1]
             hasMetas == Truthy(results.metadatas)
             hasDists == Truthy(results.distances)
         IN  IF \/ hasMetas /\ Len(results.metadatas.val[1]) < Len(docs)
                \/ hasDists /\ Len(results.distances.val[1]) < Len(docs)
             THEN [raised |-> "IndexError", formatted |-> <<>>]
             ELSE [raised |-> "none",
                   formatted |->
                     [i \in 1..Len(docs) |->
                        [text |-> docs[i],
                         metadata |-> IF hasMetas
                                      THEN results.metadatas.val[1][1]
                                      ELSE {},
                         distance |-> IF hasDists
                                      THEN Some(results.distances.val[1][i])
                                      ELSE None]]]
    ELSE [raised |-> "none", formatted |-> <<>>]

\* The "Format results" loop of query: one mapping per document of the
\* first result list; indexing past a shorter list raises IndexError.
FormatResults(results) ==
    IF Truthy(results.documents)
    THEN LET docs == results.documents.val[1]
             hasMetas == Truthy(results.metadatas)
             hasDists == Truthy(results.distances)
         IN  IF \/ hasMetas /\ Len(results.metadatas.val[1]) < Len(docs)
                \/ hasDists /\ Len(results.distances.val[1]) < Len(docs)
             THEN [raised |-> "IndexError", formatted |-> <<>>]
             ELSE [raised |-> "none",
                   formatted |->
                     [i \in 1..Len(docs) |->
                        [text |-> docs[i],
                         metadata |-> IF hasMetas
                                      THEN results.metadatas.val[1][i]
                                      ELSE {},
                         distance |-> IF hasDists
                                      THEN Some(results.distances.val[1][i])
                                      ELSE None]]]
    ELSE [raised |-> "none", formatted |-> <<>>]

\* StorageQuery with the formatting after the try block, not in it.
StorageQuery_FormatsOutsideTry(answer) ==
    IF answer.raised # "none" THEN [raised |-> "none", ret |-> <<>>]
    ELSE LET f == FormatResults(answer.results.val)
         IN  [raised |-> f.raised, ret |-> f.formatted]

\* StorageQuery with an except branch that raises the store's error again.
StorageQuery_ReraisesStore(answer) ==
    IF answer.raised # "none" THEN [raised |-> answer.raised, ret |-> <<>>]
    ELSE LET f == FormatResults(answer.results.val)
         IN  IF f.raised # "none" THEN [raised |-> "none", ret |-> <<>>]
             ELSE [raised |-> "none", ret |-> f.formatted]

\* ChromaStorage.query: the try block around the store's query and the
\* formatting, and its except branch.
StorageQuery(answer) ==
    IF answer.raised # "none" THEN [raised |-> "none", ret |-> <<>>]
    ELSE LET f == FormatResults(answer.results.val)
         IN  IF f.raised # "none" THEN [raised |-> "none", ret |-> <<>>]
             ELSE [raised |-> "none", ret |-> f.formatted]

\* GetCollectionInfo without the try block.
GetCollectionInfo_NoHandler(coll, name, storeRaises) ==
    IF storeRaises THEN [raised |-> "StoreError",
                         ret |-> [name |-> "unknown", count |-> 0]]
    ELSE [raised |-> "none",
          ret |-> [name |-> name, count |-> Cardinality(coll)]]

\* ChromaStorage.get_collection_info; storeRaises: reading the name or the
\* count raises.
GetCollectionInfo(coll, name, storeRaises) ==
    IF storeRaises THEN [raised |-> "none",
                         ret |-> [name |-> "unknown", count |-> 0]]
    ELSE [raised |-> "none",
          ret |-> [name |-> name, count |-> Cardinality(coll)]]

\* ------------------------------------------------------------ the inputs
\* Two metadata dicts that differ, and one that already has a source.
Meta1 == {<<"k", <<"v">>>>}
Meta2 == {<<"k", <<"w">>>>}
MetaWithSource == {<<"source", <<"o">>>>}

\* Metadata lists: None, and Meta1, Meta2, Meta1, ... cut at every length
\* from none to one more than the texts can be.
MetaList(n) == [i \in 1..n |-> IF i % 2 = 1 THEN Meta1 ELSE Meta2]
MetadataArgs == {None} \cup {Some(MetaList(n)) : n \in 0..(MaxTexts + 1)}

\* Documents: one of three characters with a header mark in it, and the
\* empty one.
TextSet == {<<"a", "#", "b">>, <<>>}
TextLists == SeqsOf(TextSet, 0, MaxTexts)
SplitTypeArgs == SplitTypes \cup {"xml"}

\* Chunks handed to storage directly (a, b, a, ... cut at every length), and
\* the ids given with them: none, or doc ids counted down.
ChunkList(n) == [i \in 1..n |-> StrChunk(IF i % 2 = 1 THEN <<"a">> ELSE <<"b">>)]
ChunkLists == {ChunkList(n) : n \in 0..MaxTexts}
\* What the collaborators do in a call: work, or one of them raises.
Weather == {[splitRaises |-> FALSE, storeRaises |-> FALSE],
            [splitRaises |-> TRUE, storeRaises |-> FALSE],
            [splitRaises |-> FALSE, storeRaises |-> TRUE]}
IdArgs == {None} \cup {Some([i \in 1..n |-> DocId(n - i)]) : n \in 1..MaxTexts}

\* The files: path -> Optional[content], None for a path open() fails on.
FileText == <<"a", "#", "b">>
Files ==
    (<<"a", ".", "t", "x", "t">> :> Some(FileText))
    @@ (<<"a", ".", "T", "X", "T">> :> Some(FileText))
    @@ (<<"a", ".", "M", "D">> :> Some(<<>>))
    @@ (<<"a", ".", "m", "d">> :> Some(FileText))
    @@ (<<"a", ".", "h", "t", "m", "l">> :> Some(FileText))
    @@ (<<"a", ".", "h", "t", "m">> :> Some(FileText))
    @@ (<<"a", ".", "j", "s", "o", "n">> :> Some(FileText))
    @@ (<<"a", ".", "p", "d", "f">> :> Some(FileText))
    @@ (<<"a">> :> Some(FileText))
    @@ (<<".", "m", "d">> :> Some(FileText))
    @@ (<<"x", ".", "m", "d">> :> None)
PathArgs == (DOMAIN Files \ {<<"a", ".", "m", "d">>})
                \cup {<<".", "/", "a", ".", "m", "d">>}
FileMetadataArgs == {None, Some(Meta1), Some(MetaWithSource)}
FileTypeArgs == {None, Some(<<"m", "d">>), Some(<<"T", "X", "T">>)}
\* add_file's arguments: every path on its own, and one path with every
\* metadata and file type override.
FileArgs ==
    {<<p, None, None>> : p \in PathArgs}
        \cup ({<<"a", ".", "t", "x", "t">>} \X FileMetadataArgs \X FileTypeArgs)

\* RAGEngine(collection_name, chunk_size, chunk_overlap): chunks of one
\* character, of two, and of two that share one.
ConfigArgs ==
    {[collection_name |-> "docs", chunk_size |-> 1, chunk_overlap |-> 0],
     [collection_name |-> "docs", chunk_size |-> 2, chunk_overlap |-> 0],
     [collection_name |-> "docs", chunk_size |-> 2, chunk_overlap |-> 1]}

QueryTexts == {<<"a">>, <<"b", "b">>}
\* The filters of a query: none, a metadata filter, a content filter.
FilterArgs == {<<None, None>>, <<Some(<<"k", <<"v">>>>), None>>,
               <<None, Some("b")>>}

\* --------------------------------------------------------------- the state
VARIABLES
    cfg,         \* the engine's construction: collection name, chunk size, overlap
    collection,  \* the records of the store's collection
    call,        \* the call that has just returned or raised, Idle between calls
    outcome      \* what that call raised, returned and passed on

vars == <<cfg, collection, call, outcome>>

Idle == [op |-> "idle"]

Init ==
    /\ cfg \in ConfigArgs
    /\ collection = {}
    /\ call = Idle
    /\ outcome = [raised |-> "none"]

\* RAGEngine.add_texts(texts, metadatas, split_type)
AddTexts ==
    /\ call = Idle
    /\ \E texts \in TextLists, metadatas \in MetadataArgs,
          split_type \in SplitTypeArgs, w \in Weather :
        \E r \in {EngineAddTexts(collection, cfg, texts, metadatas, split_type,
                                 w.splitRaises, w.storeRaises)} :
            /\ Cardinality(r.coll) <= MaxRecords
            /\ collection' = r.coll
            /\ call' = [op |-> "RAGEngine.add_texts", texts |-> texts,
                        metadatas |-> metadatas, split_type |-> split_type]
            /\ outcome' = [raised |-> r.raised, handed |-> r.handed,
                           added |-> r.added]
            /\ UNCHANGED cfg

\* ChromaStorage.add_texts(texts, metadatas, ids)
StorageAdd ==
    /\ call = Idle
    /\ \E texts \in ChunkLists, metadatas \in MetadataArgs, ids \in IdArgs,
          storeRaises \in BOOLEAN :
        \E r \in {StorageAddTexts(collection, texts, metadatas, ids, storeRaises)} :
            /\ Cardinality(r.coll) <= MaxRecords
            /\ collection' = r.coll
            /\ call' = [op |-> "ChromaStorage.add_texts", texts |-> texts,
                        metadatas |-> metadatas, ids |-> ids]
            /\ outcome' = [raised |-> r.raised, handed |-> None,
                           added |-> r.added]
            /\ UNCHANGED cfg

\* RAGEngine.add_file(file_path, metadata, file_type)
AddFile ==
    /\ call = Idle
    /\ \E args \in FileArgs, w \in Weather :
        \E r \in {EngineAddFile(collection, cfg, Files, args[1], args[2],
                                args[3], w.splitRaises, w.storeRaises)} :
            /\ Cardinality(r.coll) <= MaxRecords
            /\ collection' = r.coll
            /\ call' = [op |-> "RAGEngine.add_file", file_path |-> args[1],
                        metadata |-> args[2], file_type |-> args[3]]
            /\ outcome' = [raised |-> r.raised, handed |-> r.handed,
                           added |-> r.added, inner |-> r.inner]
            /\ UNCHANGED cfg

\* query(query_text, top_k, where, where_document) of the storage, and of
\* the engine, which returns the storage's answer.
QueryVia(op) ==
    /\ call = Idle
    /\ \E query_text \in QueryTexts, top_k \in 0..MaxTopK, filter \in FilterArgs,
          shape \in Shapes \cup {"raises"} :
        \E ranking \in Rankings(collection, top_k, filter[1], filter[2]) :
            \E answer \in {CollectionQuery(query_text, top_k, ranking, shape,
                                           shape = "raises")} :
                \E r \in {StorageQuery(answer)} :
                    /\ call' = [op |-> op, query_text |-> query_text,
                                top_k |-> top_k, where |-> filter[1],
                                where_document |-> filter[2]]
                    /\ outcome' = [raised |-> r.raised, ret |-> r.ret,
                                   ranking |-> ranking, shape |-> shape,
                                   answer |-> answer]
                    /\ UNCHANGED <<cfg, collection>>

StorageQueryCall == QueryVia("ChromaStorage.query")

EngineQueryCall == QueryVia("RAGEngine.query")

\* get_collection_info() of the storage, and get_info() of the engine, which
\* returns the storage's answer.
InfoVia(op) ==
    /\ call = Idle
    /\ \E storeRaises \in BOOLEAN :
        \E r \in {GetCollectionInfo(collection, cfg.collection_name, storeRaises)} :
            /\ call' = [op |-> op]
            /\ outcome' = [raised |-> r.raised, ret |-> r.ret,
                           failed |-> storeRaises]
            /\ UNCHANGED <<cfg, collection>>

StorageInfoCall == InfoVia("ChromaStorage.get_collection_info")

EngineInfoCall == InfoVia("RAGEngine.get_info")

\* The caller takes the result or the exception of the call and goes on: the
\* code is synchronous, one call runs to its end before the next starts.
Return ==
    /\ call # Idle
    /\ call' = Idle
    /\ outcome' = [raised |-> "none"]
    /\ UNCHANGED <<cfg, collection>>

Next ==
    \/ AddTexts
    \/ StorageAdd
    \/ AddFile
    \/ StorageQueryCall
    \/ EngineQueryCall
    \/ StorageInfoCall
    \/ EngineInfoCall
    \/ Return

Spec == Init /\ [][Next]_vars


\* ------------------------------------------------------------- the claims
AddTextsOps == {"RAGEngine.add_texts", "ChromaStorage.add_texts"}
QueryOps == {"RAGEngine.query", "ChromaStorage.query"}
InfoOps == {"RAGEngine.get_info", "ChromaStorage.get_collection_info"}

\* The add_texts call of the engine that has just ended, made by the caller
\* or by add_file: its texts, metadatas and split_type.
EngineAddTextsCall ==
    IF call.op = "RAGEngine.add_texts"
    THEN Some([texts |-> call.texts, metadatas |-> call.metadatas,
               split_type |-> call.split_type])
    ELSE IF call.op = "RAGEngine.add_file" THEN outcome.inner
    ELSE None

\* The number of chunks of the documents before document i.
RECURSIVE ChunksBefore(_, _, _)
ChunksBefore(texts, split_type, i) ==
    IF i <= 1 THEN 0
    ELSE ChunksBefore(texts, split_type, i - 1)
            + Len(SplitOne(cfg, texts[i - 1], split_type))

\* C1: when add_texts is given metadata and hands chunks to storage, it hands
\* one metadata entry per chunk, and the chunks of document i, which follow
\* those of the documents before it, each carry the metadata of document i.
C1_MetadataFollowsChunks ==
    (EngineAddTextsCall.some /\ outcome.handed.some
        /\ Truthy(EngineAddTextsCall.val.metadatas))
    => LET a == EngineAddTextsCall.val
           h == outcome.handed.val
       IN  /\ h.metadatas.some
           /\ Len(h.metadatas.val) = Len(h.texts)
           /\ \A i \in 1..Len(a.texts) :
                LET cs == SplitOne(cfg, a.texts[i], a.split_type)
                    at == ChunksBefore(a.texts, a.split_type, i)
                IN  \A j \in 1..Len(cs) :
                        /\ at + j <= Len(h.texts)
                        /\ h.texts[at + j] = cs[j]
                        /\ h.metadatas.val[at + j] = a.metadatas.val[i]

\* Two documents with a metadata entry each were split into more than two
\* chunks and handed to storage.
C1_Witness ==
    /\ call.op = "RAGEngine.add_texts"
    /\ Len(call.texts) = 2
    /\ call.metadatas = Some(<<Meta1, Meta2>>)
    /\ outcome.handed.some
    /\ Len(outcome.handed.val.texts) > 2


\* C2: when add_file hands the chunks of a file to storage, it hands one
\* metadata entry per chunk of the file's text, and every entry, also as
\* storage passes it to the collection, is the caller's metadata (an empty
\* mapping when there is none) with source set to the path as a string and
\* file_type to the override or else the detected type.
C2_FileMetadataPerChunk ==
    (call.op = "RAGEngine.add_file" /\ outcome.handed.some)
    => LET p == PathOf(call.file_path)
           file_type == IF call.file_type.some THEN call.file_type.val
                        ELSE DetectedFileType(p)
           given == IF call.metadata.some THEN call.metadata.val ELSE {}
           entry == {q \in given : q[1] \notin {"source", "file_type"}}
                        \cup {<<"source", p>>, <<"file_type", file_type>>}
           k == Len(SplitOne(cfg, Files[p].val, outcome.inner.val.split_type))
           h == outcome.handed.val
       IN  /\ Len(h.texts) = k
           /\ h.metadatas = Some([j \in 1..k |-> entry])
           /\ outcome.added.some => outcome.added.val.metadatas = [j \in 1..k |-> entry]
           /\ k > 0 => outcome.added.some

\* A file of two chunks was added with metadata of the caller's, and the
\* collection took both.
C2_Witness ==
    /\ call.op = "RAGEngine.add_file"
    /\ call.metadata = Some(Meta1)
    /\ outcome.raised = "none"
    /\ outcome.added.some
    /\ Len(outcome.added.val.metadatas) = 2
    /\ Cardinality(collection) = 2

\* C3: add_texts of the engine and of the storage, given no texts, return
\* without raising, call the collection not at all and leave its records
\* as they were, whatever the metadatas, split_type and ids.
C3_NoTextsNoEffect ==
    [][(call'.op \in AddTextsOps /\ call'.texts = <<>>)
        => /\ outcome'.raised = "none"
           /\ ~outcome'.handed.some
           /\ ~outcome'.added.some
           /\ collection' = collection]_vars

\* The engine was given no texts, metadata and an unsupported split type,
\* with records in the collection.
C3_Witness ==
    /\ call.op = "RAGEngine.add_texts"
    /\ call.texts = <<>>
    /\ Truthy(call.metadatas)
    /\ call.split_type \notin SplitTypes
    /\ collection # {}
    /\ outcome.raised = "none"

\* C4 as stated: add_texts with an unsupported split type raises ValueError
\* and adds nothing, whatever the texts.
C4_UnsupportedAlwaysRaises ==
    (call.op = "RAGEngine.add_texts" /\ call.split_type \notin SplitTypes)
    => (outcome.raised = "ValueError" /\ ~outcome.added.some)

\* C4, amended: add_texts with an unsupported split type and at least one
\* text raises ValueError, hands nothing to storage and leaves the
\* collection's records as they were.
C4_UnsupportedRaisesOnTexts ==
    [][(call'.op = "RAGEngine.add_texts" /\ call'.split_type \notin SplitTypes
            /\ call'.texts # <<>>)
        => /\ outcome'.raised = "ValueError"
           /\ ~outcome'.handed.some
           /\ ~outcome'.added.some
           /\ collection' = collection]_vars

\* Texts were given with an unsupported split type, and ValueError came back.
C4_Witness ==
    /\ call.op = "RAGEngine.add_texts"
    /\ call.split_type \notin SplitTypes
    /\ call.texts # <<>>
    /\ outcome.raised = "ValueError"


\* The store answered the query that has just ended, and its answer could
\* not be formatted: a list it sent is shorter than its list of documents.
AnswerIsRagged ==
    /\ outcome.answer.raised = "none"
    /\ Truthy(outcome.answer.results.val.documents)
    /\ LET res == outcome.answer.results.val
           n == Len(res.documents.val[1])
       IN  \/ Truthy(res.metadatas) /\ Len(res.metadatas.val[1]) < n
           \/ Truthy(res.distances) /\ Len(res.distances.val[1]) < n

\* C5: a query, of the storage or through the engine, raises nothing; when
\* the store's query raised or its answer could not be formatted the query
\* returns the empty list; and the collection's records are as they were.
C5_QueryNeverRaises ==
    [][(call'.op \in QueryOps)
        => /\ outcome'.raised = "none"
           /\ (outcome'.answer.raised # "none" \/ AnswerIsRagged') => outcome'.ret = <<>>
           /\ collection' = collection]_vars

\* The store answered a query with matches and a metadata list too short
\* for them.
C5_Witness ==
    /\ call.op \in QueryOps
    /\ outcome.shape = "ragged"
    /\ Len(outcome.ranking) = 2
    /\ AnswerIsRagged
    /\ outcome.ret = <<>>

\* C6: a query on a collection without records returns the empty list and
\* raises nothing, whatever the query text, top_k and filters.
C6_EmptyCollectionEmptyResult ==
    (call.op \in QueryOps /\ collection = {})
    => (outcome.raised = "none" /\ outcome.ret = <<>>)

\* The store answered a query for one match on the empty collection.
C6_Witness ==
    /\ call.op \in QueryOps
    /\ collection = {}
    /\ call.top_k = 1
    /\ outcome.answer.raised = "none"
    /\ outcome.ret = <<>>

\* The extension of a path: the characters after the last dot of its file
\* name, in lower case, when that dot is neither the first nor the last
\* character of the name; otherwise none.
Extension(path) ==
    LET slashes == {i \in 1..Len(path) : path[i] = "/"}
        start == IF slashes = {} THEN 1
                 ELSE 1 + CHOOSE i \in slashes : \A j \in slashes : j <= i
        dots == {i \in (start + 1)..(Len(path) - 1) : path[i] = "."}
    IN  IF dots = {} THEN <<>>
        ELSE LET d == CHOOSE i \in dots : \A j \in dots : j <= i
             IN  [i \in 1..(Len(path) - d) |-> LowerChar(path[d + i])]

\* C7: add_file without a file_type override calls add_texts with the split
\* type of the file's lower-cased extension: text for txt, markdown for md,
\* html for html and htm, json for json, text for every other and for none.
C7_SplitTypeFromExtension ==
    (call.op = "RAGEngine.add_file" /\ ~call.file_type.some /\ outcome.inner.some)
    => LET e == Extension(call.file_path)
       IN  outcome.inner.val.split_type =
              (CASE e = <<"t", "x", "t">> -> "text"
                 [] e = <<"m", "d">> -> "markdown"
                 [] e \in {<<"h", "t", "m", "l">>, <<"h", "t", "m">>} -> "html"
                 [] e = <<"j", "s", "o", "n">> -> "json"
                 [] OTHER -> "text")

\* A file with an upper-case MD extension was added without an override and
\* split as markdown.
C7_Witness ==
    /\ call.op = "RAGEngine.add_file"
    /\ call.file_path = <<"a", ".", "M", "D">>
    /\ ~call.file_type.some
    /\ outcome.inner.some
    /\ outcome.inner.val.split_type = "markdown"

\* C8: when the store answers a query with its documents and with lists as
\* long as they are, the query returns one mapping per match of the store's
\* ranking, in that order, the i-th with the document of the i-th match,
\* its metadata (an empty mapping when the store sent no metadata) and its
\* distance from the query text (None when the store sent no distances).
C8_OneMappingPerMatch ==
    (call.op \in QueryOps /\ outcome.answer.raised = "none"
        /\ outcome.shape \in {"full", "no_metadatas", "no_distances"})
    => /\ Len(outcome.ret) = Len(outcome.ranking)
       /\ \A i \in 1..Len(outcome.ranking) :
            /\ outcome.ret[i].text = outcome.ranking[i].document
            /\ outcome.ret[i].metadata =
                  (IF outcome.shape = "no_metadatas" THEN {}
                   ELSE outcome.ranking[i].metadata)
            /\ outcome.ret[i].distance =
                  (IF outcome.shape = "no_distances" THEN None
                   ELSE Some(Distance(call.query_text,
                                      outcome.ranking[i].document)))

\* The store ranked two matches of different metadata and distance, and
\* sent every list.
C8_Witness ==
    /\ call.op \in QueryOps
    /\ outcome.shape = "full"
    /\ outcome.answer.raised = "none"
    /\ Len(outcome.ranking) = 2
    /\ outcome.ranking[1].metadata # outcome.ranking[2].metadata
    /\ Distance(call.query_text, outcome.ranking[1].document)
          # Distance(call.query_text, outcome.ranking[2].document)
    /\ Len(outcome.ret) = 2

\* C9: get_collection_info, of the storage or through the engine's get_info,
\* raises nothing; it returns the name "unknown" and the count 0 when
\* reading the collection failed, and the collection's name and its number
\* of records otherwise.
C9_InfoNeverRaises ==
    (call.op \in InfoOps)
    => /\ outcome.raised = "none"
       /\ outcome.failed => outcome.ret = [name |-> "unknown", count |-> 0]
       /\ ~outcome.failed => outcome.ret = [name |-> cfg.collection_name,
                                            count |-> Cardinality(collection)]

\* Reading a collection that holds records failed.
C9_Witness ==
    /\ call.op \in InfoOps
    /\ outcome.failed
    /\ collection # {}
    /\ outcome.ret.count = 0

\* C10: whenever add_texts of the storage calls the collection, the
\* metadatas it passes are as many as the texts, the metadata given for a
\* text in its place and an empty mapping where none was given.
C10_MetadatasMatchTexts ==
    (call.op = "ChromaStorage.add_texts" /\ outcome.added.some)
    => LET a == outcome.added.val
       IN  /\ Len(a.metadatas) = Len(a.documents)
           /\ \A i \in 1..Len(a.metadatas) :
                a.metadatas[i] =
                    (IF call.metadatas.some /\ i <= Len(call.metadatas.val)
                     THEN call.metadatas.val[i] ELSE {})

\* C11: an add_texts or add_file call without ids of the caller's, when the
\* collection takes its chunks, stores each under an id that no record of
\* the collection had before, so the number of records, which get_info
\* reports, grows by the number of chunks added.
C11_AddedUnderFreshIds ==
    [][(/\ call'.op \in AddTextsOps \cup {"RAGEngine.add_file"}
        /\ (call'.op = "ChromaStorage.add_texts" => ~call'.ids.some)
        /\ outcome'.added.some
        /\ outcome'.raised = "none")
        => /\ Range(outcome'.added.val.ids) \cap IdsOf(collection) = {}
           /\ collection \subseteq collection'
           /\ Cardinality(collection')
                = Cardinality(collection) + Len(outcome'.added.val.documents)]_vars

====
